---- MODULE Spec2Model ----
(***************************************************************************)
(* Bucket marks, bucket generations, disk reservations and the derived     *)
(* per-device bucket counts of libbcachefs/buckets.h, and the device       *)
(* resize and evacuate commands of cmd_device.c.                           *)
(*                                                                         *)
(* The module holds one state machine per subsystem.  Each has its own     *)
(* initial predicate, next-state relation and specification; the variables *)
(* of the other subsystems are held at their idle values:                  *)
(*   SpecMark     concurrent bucket_cmpxchg callers on one bucket mark     *)
(*   SpecGen      one bucket generation and one extent pointer into it     *)
(*   SpecRes      disk reservations against the online_reserved counters   *)
(*   SpecReclaim  __dev_buckets_reclaimable racing with the allocator      *)
(*   SpecFsUsage  bch2_fs_usage_read racing with replica-entry changes     *)
(*   SpecTrans    marking transactions: stage, restart, abort, commit      *)
(*   SpecAlloc    a bucket's way through freelist, open bucket, invalidate *)
(*   SpecArrays   readers of the bucket arrays, array swap and retirement  *)
(* and two for the device commands of cmd_device.c:                        *)
(*   SpecResize   one run of `bcachefs device resize'                      *)
(*   SpecEvacuate one run of `bcachefs device evacuate'                    *)
(***************************************************************************)
EXTENDS Integers, Sequences, FiniteSets, TLC

VARIABLES
    \* ---- bucket mark and the bucket_cmpxchg callers
    mark,       \* the bucket's mark word (g->_mark.v), as its fields
    mark0,      \* the mark word before any caller ran
    fn,         \* fn[c]: the expr caller c passes to bucket_cmpxchg
    pc,         \* pc[c]: position of caller c inside bucket_cmpxchg
    v,          \* v[c]: the macro's _v
    old,        \* old[c]: the macro's _old
    new,        \* new[c]: the caller's `new'
    nfail,      \* nfail[c]: how often c's cmpxchg has failed
    \* ---- bucket generation and extent pointer
    gen,        \* *bucket_gen(ca, b) of the bucket the pointer points into
    ptr,        \* the extent pointer: [gen |-> ...]
    ahead,      \* generations the bucket really is ahead of the pointer
    glast,      \* the last operation of the generation machine
    \* ---- disk reservations
    online_reserved,  \* c->online_reserved, one counter per cpu
    res,              \* res[t]: the struct disk_reservation of task t
    held,             \* held[t]: t's reservation has been initialised
    used,             \* sectors in use by data
    rounds,           \* reservation operations issued so far
    nofail_used,      \* some acquire carried BCH_DISK_RESERVATION_NOFAIL
    rlast,            \* the last reservation operation and its outcome
    \* ---- device usage, freelists, open buckets
    buckets_unavailable, \* the device's live buckets_unavailable count
    free,                \* fifo_used(&ca->free[i]) for each reserve i
    free_inc,            \* fifo_used(&ca->free_inc)
    nr_open_buckets,     \* ca->nr_open_buckets
    rd_pc,               \* position of the reader
    rd_stats,            \* the reader's struct bch_dev_usage snapshot
    rd_op,               \* which count the reader asked for
    rd_available,        \* the reader's local `available'
    rd_ret,              \* what the reader's call returned
    warned,              \* WARN_ONCE's once-flag: the warning has been printed
    \* ---- filesystem usage, its reader, and the marking transactions
    replicas,     \* c->replicas: the replica entries, as their scheme ids
    usage_base,   \* c->usage_base: header counters, then one per entry
    usage,        \* usage[p]: cpu p's counters, laid out as usage_base
    fr_pc,        \* position of the caller of bch2_fs_usage_read
    fr_u64s,      \* the fs_usage_u64s the reader sized its buffer with
    fr_buf,       \* the reader's buffer
    fr_cpu,       \* the next cpu the reader folds in
    fr_changed,   \* the usage was re-laid or folded since the read began
    fr_layout,    \* the replica entries as they were when the read began
    fr_mixed,     \* a fold of this read has read from another layout
    fr_quiet,     \* every transaction had finished when the read began
    tx,           \* tx[t]: transaction t: position, keys, replicas delta list
    bmark,        \* dirty sectors of the bucket the keys point into
    \* ---- bucket life cycle: freelist, open buckets, invalidation
    bkt_gen,         \* bkt_gen[b]: generation of bucket b
    bm,           \* bm[b]: mark of bucket b
    bstate,       \* bstate[b]: "free", "open", "used" or "incoming"
    ninval,       \* invalidations so far
    alast,        \* the last allocator operation and its bucket
    \* ---- bucket arrays and their readers
    ca_fs,        \* ca->fs is set: the device belongs to a filesystem
    buckets,      \* ca->buckets[gc]: the published arrays, 0 for NULL
    arr_state,    \* arr_state[a]: "unused", "published", "retired" or "freed"
    grace,        \* grace[a]: read-side sections a retired array waits for
    rr,           \* rr[r]: reader r: position, protection, reference
    \* ---- cmd_device_resize
    rz_pc,        \* position of the command: "start", "online", "offline",
                  \* "done" (returned) or "died" (die() was called)
    rz_m,         \* the device's member info: bucket_size, nbuckets, as stored
    rz_size,      \* the command's `size'
    rz_calls,     \* the resize operations the command has invoked, in order
    rz_msg,       \* the message the command died or complained with
    \* ---- cmd_device_evacuate
    ev_pc,        \* position of the command: "start", "opened", "read",
                  \* "migrate", "done" or "died"
    ev_state,     \* the member state of the device, as the filesystem has it
    ev_u,         \* u.state: the state bchu_dev_usage returned
    ev_log,       \* the operations the command has issued, in order
    ev_msg,       \* the message the command died with
    ev_env        \* state changes made by others while the command ran

markVars    == <<mark, mark0, fn, pc, v, old, new, nfail>>
genVars     == <<gen, ptr, ahead, glast>>
resVars     == <<online_reserved, res, held, used, rounds, nofail_used, rlast>>
reclaimVars == <<buckets_unavailable, free, free_inc, nr_open_buckets,
                 rd_pc, rd_stats, rd_op, rd_available, rd_ret, warned>>
usageVars   == <<replicas, usage_base, usage, fr_pc, fr_u64s, fr_buf, fr_cpu,
                 fr_changed, fr_layout, fr_mixed, fr_quiet, tx, bmark>>
allocVars   == <<bkt_gen, bm, bstate, ninval, alast>>
arrayVars   == <<ca_fs, buckets, arr_state, grace, rr>>
resizeVars  == <<rz_pc, rz_m, rz_size, rz_calls, rz_msg>>
evacVars    == <<ev_pc, ev_state, ev_u, ev_log, ev_msg, ev_env>>
vars        == <<markVars, genVars, resVars, reclaimVars, usageVars, allocVars,
                 arrayVars, resizeVars, evacVars>>

\* what the steps of one subsystem leave alone
MarkFrame ==
    UNCHANGED <<genVars, resVars, reclaimVars, usageVars, allocVars,
                arrayVars, resizeVars, evacVars>>
GenFrame ==
    UNCHANGED <<markVars, resVars, reclaimVars, usageVars, allocVars,
                arrayVars, resizeVars, evacVars>>
ResFrame ==
    UNCHANGED <<markVars, genVars, reclaimVars, usageVars, allocVars,
                arrayVars, resizeVars, evacVars>>
ReclaimFrame ==
    UNCHANGED <<markVars, genVars, resVars, usageVars, allocVars,
                arrayVars, resizeVars, evacVars>>
UsageFrame ==
    UNCHANGED <<markVars, genVars, resVars, reclaimVars, allocVars,
                arrayVars, resizeVars, evacVars>>
AllocFrame ==
    UNCHANGED <<markVars, genVars, resVars, reclaimVars, usageVars,
                arrayVars, resizeVars, evacVars>>
ArrayFrame ==
    UNCHANGED <<markVars, genVars, resVars, reclaimVars, usageVars,
                allocVars, resizeVars, evacVars>>
ResizeFrame ==
    UNCHANGED <<markVars, genVars, resVars, reclaimVars, usageVars,
                allocVars, arrayVars, evacVars>>
EvacFrame ==
    UNCHANGED <<markVars, genVars, resVars, reclaimVars, usageVars,
                allocVars, arrayVars, resizeVars>>

(***************************************************************************)
(* Fixed-width integers.                                                   *)
(***************************************************************************)
U8(x) == x % 256

\* (s8) x: the low eight bits read as a two's complement value
S8(x) == LET m == x % 256 IN IF m >= 128 THEN m - 256 ELSE m

(***************************************************************************)
(* BUCKET MARKS: bucket_cmpxchg                                            *)
(***************************************************************************)
NCallers   == 3
BucketSize == 3
MaxDelta   == 2

Callers == 1 .. NCallers

UnsetWord == [gen |-> -1, data_type |-> "unset", dirty_sectors |-> 0,
              cached_sectors |-> 0, stripe |-> FALSE]

\* the exprs callers pass: marking d sectors of a dirty or a cached pointer,
\* and invalidating the bucket
MutateFns ==
    [op : {"dirty", "cached"}, d : 1 .. MaxDelta] \cup [op : {"invalidate"}, d : {0}]

\* expr applied to the word m
Mutate(f, m) ==
    CASE f.op = "dirty" ->
           [m EXCEPT !.dirty_sectors = @ + f.d, !.data_type = "user"]
      [] f.op = "cached" ->
           [m EXCEPT !.cached_sectors = @ + f.d, !.data_type = "cached"]
      [] f.op = "invalidate" ->
           [m EXCEPT !.gen = U8(@ + 1), !.dirty_sectors = 0,
                     !.cached_sectors = 0, !.data_type = "none"]

\* return !mark.dirty_sectors && !mark.stripe;
is_available_bucket(m) == m.dirty_sectors = 0 /\ ~m.stripe

\* what a faulty body would compute: `new' is not reset from _v when the loop
\* goes round again, so expr is applied on top of the previous attempt
LoopBodyNoReset(f, _v, prev) ==
    Mutate(f, IF prev = UnsetWord THEN _v ELSE prev)

\* (new).v.counter = _old.v.counter = _v; expr;   -- the value left in `new'
LoopBody(f, _v, prev) == Mutate(f, _v)

\* what a faulty primitive would do: store without comparing
atomic64_xchg(cur, o, n) == [mem |-> n, ret |-> cur]

\* atomic64_cmpxchg(&_g->_mark.v, _old, new): memory afterwards, value returned
atomic64_cmpxchg(cur, o, n) ==
    [mem |-> IF cur = o THEN n ELSE cur, ret |-> cur]

\* the sectors the callers in S mark
RECURSIVE SumD(_, _)
SumD(S, f) ==
    IF S = {} THEN 0
    ELSE LET c == CHOOSE x \in S : TRUE
         IN  (IF f[c].op = "invalidate" THEN 0 ELSE f[c].d) + SumD(S \ {c}, f)

\* an order on the exprs
FnRank(f) ==
    CASE f.op = "invalidate" -> 0
      [] f.op = "dirty"      -> f.d
      [] f.op = "cached"     -> MaxDelta + f.d

MarkIdle ==
    /\ mark = UnsetWord /\ mark0 = UnsetWord
    /\ fn = <<>> /\ pc = <<>> /\ v = <<>> /\ old = <<>> /\ new = <<>>
    /\ nfail = <<>>

\* The sectors the callers mark lie inside the bucket: together with what the
\* bucket already holds they come to at most bucket_size.  The callers run
\* the same code, so their exprs are drawn up to a renaming of the callers.
MarkInit ==
    /\ mark0 \in [gen : {0, 255}, data_type : {"none"}, dirty_sectors : 0 .. 1,
                  cached_sectors : 0 .. 1, stripe : {FALSE}]
    /\ mark = mark0
    /\ fn \in [Callers -> MutateFns]
    /\ \A c \in Callers : c < NCallers => FnRank(fn[c]) <= FnRank(fn[c + 1])
    /\ mark0.dirty_sectors + mark0.cached_sectors + SumD(Callers, fn) <= BucketSize
    /\ pc = [c \in Callers |-> "read"]
    /\ v = [c \in Callers |-> UnsetWord]
    /\ old = [c \in Callers |-> UnsetWord]
    /\ new = [c \in Callers |-> UnsetWord]
    /\ nfail = [c \in Callers |-> 0]

\* u64 _v = atomic64_read(&(g)->_mark.v);
CmpxchgRead(c) ==
    /\ MarkFrame
    /\ pc[c] = "read"
    /\ v' = [v EXCEPT ![c] = mark]
    /\ pc' = [pc EXCEPT ![c] = "body"]
    /\ UNCHANGED <<mark, mark0, fn, old, new, nfail>>

\* (new).v.counter = _old.v.counter = _v; expr;
CmpxchgBody(c) ==
    /\ MarkFrame
    /\ pc[c] = "body"
    /\ old' = [old EXCEPT ![c] = v[c]]
    /\ new' = [new EXCEPT ![c] = LoopBody(fn[c], v[c], new[c])]
    /\ pc' = [pc EXCEPT ![c] = "cas"]
    /\ UNCHANGED <<mark, mark0, fn, v, nfail>>

\* while ((_v = atomic64_cmpxchg(...)) != _old.v.counter);
CmpxchgCas(c) ==
    /\ MarkFrame
    /\ pc[c] = "cas"
    /\ LET r == atomic64_cmpxchg(mark, old[c], new[c])
       IN  /\ mark' = r.mem
           /\ v' = [v EXCEPT ![c] = r.ret]
           /\ IF r.ret # old[c]
                 THEN /\ pc' = [pc EXCEPT ![c] = "body"]
                      /\ nfail' = [nfail EXCEPT ![c] = @ + 1]
                 ELSE /\ pc' = [pc EXCEPT ![c] = "done"]
                      /\ UNCHANGED nfail
    /\ UNCHANGED <<mark0, fn, old, new>>

AllDone == \A c \in Callers : pc[c] = "done"

\* the marks that applying the exprs of the callers in S to m, one after
\* another in some order, can end in
RECURSIVE SerialResults(_, _)
SerialResults(S, m) ==
    IF S = {} THEN {m}
    ELSE UNION {SerialResults(S \ {c}, Mutate(fn[c], m)) : c \in S}

\* C1: once every concurrent bucket_cmpxchg caller has returned, the mark
\* word is what the callers' exprs give when applied one after another in
\* some order, so no update is lost; and a caller whose cmpxchg fails goes
\* round the loop with _v set to the word that cmpxchg has just observed.
C1_NoLostUpdate ==
    /\ [](AllDone => mark \in SerialResults(Callers, mark0))
    /\ [][\A c \in Callers :
            (pc[c] = "cas" /\ pc'[c] = "body") => (v'[c] = mark /\ v'[c] # old[c])]_vars

\* every caller has returned, one of them after a failed cmpxchg, and the
\* order of the exprs mattered
C1_Witness ==
    /\ AllDone
    /\ \E c \in Callers : nfail[c] > 0
    /\ Cardinality(SerialResults(Callers, mark0)) > 1

\* C2: in every reachable state, between and after the callers' steps in any
\* interleaving, the bucket's mark has
\* dirty_sectors + cached_sectors <= bucket_size.
C2_SectorsWithinBucket ==
    mark.dirty_sectors + mark.cached_sectors <= BucketSize

\* all callers have returned, one of them after a failed cmpxchg, and the
\* bucket is exactly full
C2_Witness ==
    /\ AllDone
    /\ \E c \in Callers : nfail[c] > 0
    /\ mark.dirty_sectors > 0 /\ mark.cached_sectors > 0
    /\ mark.dirty_sectors + mark.cached_sectors = BucketSize

(***************************************************************************)
(* BUCKET GENERATIONS: gen_cmp, gen_after, ptr_stale                       *)
(***************************************************************************)
MaxAhead == 129

\* a gen_cmp without the (s8) cast
gen_cmp_nocast(a, b) == a - b

\* return (s8) (a - b);
gen_cmp(a, b) == S8(a - b)

\* a gen_after that compares r > 1
gen_after_strict(a, b) == LET r == gen_cmp(a, b) IN IF r > 1 THEN r ELSE 0

\* int r = gen_cmp(a, b); return r > 0 ? r : 0;
gen_after(a, b) == LET r == gen_cmp(a, b) IN IF r > 0 THEN r ELSE 0

\* a ptr_stale with the arguments of gen_after exchanged
ptr_stale_swapped(bgen, p) == U8(gen_after(p.gen, bgen))

\* u8 ret = gen_after(*bucket_gen(ca, PTR_BUCKET_NR(ca, ptr)), ptr->gen);
ptr_stale(bgen, p) == U8(gen_after(bgen, p.gen))

NoOp == [op |-> "none", cur |-> 0, ptr |-> 0, ret |-> 0]

GenIdle == gen = 0 /\ ptr = [gen |-> 0] /\ ahead = 0 /\ glast = NoOp

\* any bucket generation, and a pointer whose generation is within the
\* signed 8-bit window of it
GenInit ==
    /\ gen \in 0 .. 255
    /\ ahead \in -128 .. 127
    /\ ptr = [gen |-> U8(gen - ahead)]
    /\ glast = NoOp

\* a new pointer into the bucket records the bucket's generation
RecordPtr ==
    /\ GenFrame
    /\ ptr' = [gen |-> gen]
    /\ ahead' = 0
    /\ glast' = [NoOp EXCEPT !.op = "record"]
    /\ UNCHANGED gen

\* invalidate(bucket): the bucket's generation advances by one
InvalidateGen ==
    /\ GenFrame
    /\ ahead < MaxAhead
    /\ gen' = U8(gen + 1)
    /\ ahead' = ahead + 1
    /\ glast' = [NoOp EXCEPT !.op = "invalidate"]
    /\ UNCHANGED ptr

PtrStale ==
    /\ GenFrame
    /\ glast' = [op |-> "ptr_stale", cur |-> gen, ptr |-> ptr.gen,
                 ret |-> ptr_stale(gen, ptr)]
    /\ UNCHANGED <<gen, ptr, ahead>>

IsStale == ptr_stale(gen, ptr) > 0

\* C3: for every pair of 8-bit generations, ptr_stale returns the difference
\* currentGen - ptrGen taken modulo 256 when that difference, read as a
\* signed 8-bit value, is positive (1..127), and 0 otherwise: equal
\* generations and a bucket generation behind the pointer's are not stale.
C3_StaleIffSignedDiffPositive ==
    glast.op = "ptr_stale" =>
        LET d == (glast.cur - glast.ptr) % 256
        IN  glast.ret = IF d \in 1 .. 127 THEN d ELSE 0

\* ptr_stale has reported a pointer stale across the wrap of the generation
C3_Witness ==
    /\ glast.op = "ptr_stale"
    /\ glast.cur < glast.ptr
    /\ glast.ret > 0

\* C4: a stale pointer stays stale under every further advance of the
\* bucket's generation, as long as the bucket is no more than 127
\* generations ahead of the pointer.
C4_StaleMonotonic ==
    [][(ptr' = ptr /\ IsStale /\ ahead' <= 127) => IsStale']_vars

\* the bucket has advanced to the edge of the window, across the wrap of the
\* generation, and the pointer is still stale
C4_Witness ==
    /\ glast.op = "invalidate"
    /\ ahead = 127
    /\ gen < ptr.gen
    /\ IsStale

\* C5: a pointer that records the bucket's current generation is not stale,
\* and one invalidate of the bucket, which advances the generation by one
\* (from 255 to 0 too), makes that pointer stale.
C5_FreshThenStale ==
    /\ [](ptr.gen = gen => ~IsStale)
    /\ [][(ptr.gen = gen /\ ptr' = ptr /\ glast'.op = "invalidate")
             => (gen' = U8(gen + 1) /\ IsStale')]_vars

\* the bucket was invalidated once from generation 255 and the pointer that
\* recorded 255 is stale
C5_Witness ==
    /\ glast.op = "invalidate"
    /\ ahead = 1
    /\ ptr.gen = 255 /\ gen = 0
    /\ IsStale

(***************************************************************************)
(* DISK RESERVATIONS                                                       *)
(***************************************************************************)
NTasks             == 2
NCpus              == 2
MaxOps             == 3
ScenarioBuckets    == 100
ScenarioBucketSize == 8

RESERVE_FACTOR              == 6
BCH_DISK_RESERVATION_NOFAIL == 1

Tasks    == 1 .. NTasks
Cpus     == 0 .. NCpus - 1
Capacity == ScenarioBuckets * ScenarioBucketSize

SectorChoices   == {400, 100000}
ReplicaChoices  == {1, 2}
FlagChoices     == {0, BCH_DISK_RESERVATION_NOFAIL}

\* an avail_factor dividing by (1 << RESERVE_FACTOR) - 1
avail_factor_minus(r) == (r * 2 ^ RESERVE_FACTOR) \div (2 ^ RESERVE_FACTOR - 1)

\* an avail_factor dividing by 1 << RESERVE_FACTOR
avail_factor_noheadroom(r) == (r * 2 ^ RESERVE_FACTOR) \div (2 ^ RESERVE_FACTOR)

\* return div_u64(r << RESERVE_FACTOR, (1 << RESERVE_FACTOR) + 1);
avail_factor(r) == (r * 2 ^ RESERVE_FACTOR) \div (2 ^ RESERVE_FACTOR + 1)

\* the sum of a per-cpu counter; the counters are written as integers, one
\* cpu's may go below zero when a put runs on another cpu than the get
RECURSIVE SumCpus(_, _)
SumCpus(S, f) ==
    IF S = {} THEN 0
    ELSE LET c == CHOOSE x \in S : TRUE IN f[c] + SumCpus(S \ {c}, f)

\* the online-reserved counter, summed over the cpus
OnlineReserved == SumCpus(Cpus, online_reserved)

\* .sectors = 0, .nr_replicas = nr_replicas
bch2_disk_reservation_init(nr_replicas) ==
    [sectors |-> 0, nr_replicas |-> nr_replicas]

\* flags & BCH_DISK_RESERVATION_NOFAIL
NoFail(flags) == (flags \div BCH_DISK_RESERVATION_NOFAIL) % 2 = 1

\* bch2_disk_reservation_add(c, res, sectors, flags), whose body is in
\* buckets.c: admission against the capacity less the reserved headroom,
\* unless the flags override it; on success the sectors are added to the
\* counter and to the reservation.
bch2_disk_reservation_add(r, sectors, flags) ==
    IF NoFail(flags) \/ used + OnlineReserved + sectors <= avail_factor(Capacity)
    THEN [ret |-> "ok", add |-> sectors,
          res |-> [r EXCEPT !.sectors = @ + sectors]]
    ELSE [ret |-> "InsufficientSpace", add |-> 0, res |-> r]

\* a get that passes sectors instead of sectors * nr_replicas
bch2_disk_reservation_get_noreplicas(sectors, nr_replicas, flags) ==
    bch2_disk_reservation_add(bch2_disk_reservation_init(nr_replicas), sectors, flags)

\* *res = bch2_disk_reservation_init(c, nr_replicas);
\* return bch2_disk_reservation_add(c, res, sectors * nr_replicas, flags);
bch2_disk_reservation_get(sectors, nr_replicas, flags) ==
    bch2_disk_reservation_add(bch2_disk_reservation_init(nr_replicas),
                              sectors * nr_replicas, flags)

\* a put that clears res->sectors before it subtracts them
bch2_disk_reservation_put_zerofirst(r) ==
    [sub |-> 0, res |-> [r EXCEPT !.sectors = 0]]

\* a put that leaves res->sectors as it was
bch2_disk_reservation_put_keep(r) ==
    [sub |-> r.sectors, res |-> r]

\* this_cpu_sub(*c->online_reserved, res->sectors); res->sectors = 0;
bch2_disk_reservation_put(r) ==
    [sub |-> r.sectors, res |-> [r EXCEPT !.sectors = 0]]

NoResOp == [op |-> "none", task |-> 0, sectors |-> 0, nr_replicas |-> 0,
            flags |-> 0, ret |-> "ok", before |-> 0,
            imm |-> FALSE, base |-> 0, again |-> FALSE, first |-> 0]

ResIdle ==
    /\ online_reserved = <<>> /\ res = <<>> /\ held = <<>> /\ used = 0
    /\ rounds = 0 /\ nofail_used = FALSE /\ rlast = NoResOp

\* a filesystem of ScenarioBuckets buckets, all free or with data on all but
\* the headroom and 400 sectors, and nothing reserved
ResInit ==
    /\ online_reserved = [p \in Cpus |-> 0]
    /\ res = [t \in Tasks |-> [sectors |-> 0, nr_replicas |-> 0]]
    /\ held = [t \in Tasks |-> FALSE]
    /\ used \in {0, (Capacity * 64) \div 65 - 400}
    /\ rounds = 0
    /\ nofail_used = FALSE
    /\ rlast = NoResOp

\* task t, running on cpu p, calls bch2_disk_reservation_get; a task releases
\* the reservation it holds before it asks for another
Acquire(t, p, sectors, nr_replicas, flags) ==
    /\ ResFrame
    /\ rounds < MaxOps
    /\ res[t].sectors = 0
    /\ LET a == bch2_disk_reservation_get(sectors, nr_replicas, flags)
       IN  /\ res' = [res EXCEPT ![t] = a.res]
           /\ online_reserved' = [online_reserved EXCEPT ![p] = @ + a.add]
           /\ rlast' = [op |-> "get", task |-> t, sectors |-> sectors,
                        nr_replicas |-> nr_replicas, flags |-> flags,
                        ret |-> a.ret, before |-> OnlineReserved,
                        imm |-> FALSE, base |-> 0, again |-> FALSE, first |-> 0]
    /\ held' = [held EXCEPT ![t] = TRUE]
    /\ rounds' = rounds + 1
    /\ nofail_used' = (nofail_used \/ NoFail(flags))
    /\ UNCHANGED used

\* task t, running on cpu p, calls bch2_disk_reservation_put
Release(t, p) ==
    /\ ResFrame
    /\ rounds < MaxOps
    /\ held[t]
    /\ LET r == bch2_disk_reservation_put(res[t])
       IN  /\ res' = [res EXCEPT ![t] = r.res]
           /\ online_reserved' = [online_reserved EXCEPT ![p] = @ - r.sub]
           /\ rlast' = [op |-> "put", task |-> t, sectors |-> res[t].sectors,
                        nr_replicas |-> res[t].nr_replicas, flags |-> 0,
                        ret |-> "ok", before |-> OnlineReserved,
                        imm |-> (rlast.op = "get" /\ rlast.task = t /\ rlast.ret = "ok"),
                        base |-> rlast.before,
                        again |-> (rlast.op = "put" /\ rlast.task = t),
                        first |-> IF rlast.op = "put" /\ rlast.task = t
                                  THEN rlast.sectors ELSE 0]
    /\ rounds' = rounds + 1
    /\ UNCHANGED <<held, used, nofail_used>>

\* C6: a successful bch2_disk_reservation_get followed immediately by
\* bch2_disk_reservation_put of the same reservation leaves the
\* online-reserved counter, summed over the cpus, at its value before the
\* get.
C6_RoundTrip ==
    (rlast.op = "put" /\ rlast.imm) => OnlineReserved = rlast.base

\* a reservation of two replicas was released right after it was acquired,
\* on another cpu than the one that acquired it
C6_Witness ==
    /\ rlast.op = "put" /\ rlast.imm
    /\ rlast.sectors > 0 /\ rlast.nr_replicas = 2
    /\ \E p \in Cpus : online_reserved[p] < 0

\* C7: without the override flag, an acquire succeeds exactly when
\* sectors * nr_replicas fits in the free space less the reserved headroom;
\* on the all-free scenario device acquire(400, 1) succeeds and
\* acquire(100000, 1) fails; a failed acquire reports InsufficientSpace,
\* leaves the counter as it was and the reservation with zero sectors.
C7_AdmissionWithoutOverride ==
    (rlast.op = "get" /\ rlast.flags = 0) =>
        LET need == rlast.sectors * rlast.nr_replicas
            room == (Capacity * 64) \div 65 - used - rlast.before
        IN  /\ rlast.ret = "ok" <=> need <= room
            /\ rlast.ret \in {"ok", "InsufficientSpace"}
            /\ rlast.ret = "InsufficientSpace" =>
                    /\ OnlineReserved = rlast.before
                    /\ res[rlast.task].sectors = 0
            /\ (used = 0 /\ rlast.before = 0 /\ rlast.nr_replicas = 1) =>
                    /\ rlast.sectors = 400 => rlast.ret = "ok"
                    /\ rlast.sectors = 100000 => rlast.ret = "InsufficientSpace"

\* an acquire that would fit in the free space, but not in the free space
\* less the headroom, has failed after an earlier one succeeded
C7_Witness ==
    /\ rlast.op = "get" /\ rlast.flags = 0
    /\ rlast.ret = "InsufficientSpace"
    /\ rlast.before > 0
    /\ used + rlast.before + rlast.sectors * rlast.nr_replicas <= Capacity

\* C8: an acquire with BCH_DISK_RESERVATION_NOFAIL succeeds for every size
\* requested and in every state, also with no free space left, and adds
\* sectors * nr_replicas to the online-reserved counter.
C8_OverrideAlwaysSucceeds ==
    (rlast.op = "get" /\ rlast.flags = BCH_DISK_RESERVATION_NOFAIL) =>
        /\ rlast.ret = "ok"
        /\ OnlineReserved = rlast.before + rlast.sectors * rlast.nr_replicas
        /\ res[rlast.task].sectors = rlast.sectors * rlast.nr_replicas

\* an override acquire of two replicas has succeeded with no free space left
C8_Witness ==
    /\ rlast.op = "get" /\ rlast.flags = BCH_DISK_RESERVATION_NOFAIL
    /\ rlast.nr_replicas = 2
    /\ used + rlast.before >= Capacity
    /\ rlast.ret = "ok"

\* C9: as long as no acquire has carried the override flag, the sectors in
\* use plus the online-reserved sectors are at most floor(capacity * 64 / 65).
C9_HeadroomKept ==
    ~nofail_used => used + OnlineReserved <= (Capacity * 64) \div 65

\* acquires without the override flag have taken everything but the headroom
C9_Witness ==
    /\ ~nofail_used
    /\ rlast.op = "get" /\ rlast.ret = "ok"
    /\ used + OnlineReserved = (Capacity * 64) \div 65

\* C21: bch2_disk_reservation_put leaves the reservation with 0 sectors, so
\* a second put of the same reservation, with no get in between, finds 0
\* sectors recorded and leaves the online-reserved counter, summed over the
\* cpus, as the first put left it: the two puts together lower the counter
\* by what the first put alone lowered it.
C21_PutIdempotent ==
    (rlast.op = "put" /\ rlast.again) =>
        /\ rlast.sectors = 0
        /\ OnlineReserved = rlast.before
        /\ OnlineReserved = rlast.base - rlast.first
        /\ res[rlast.task].sectors = 0

\* a reservation that held sectors was put twice in a row: the first put
\* lowered the counter by those sectors, the second left it alone
C21_Witness ==
    /\ rlast.op = "put" /\ rlast.again
    /\ rlast.first > 0
    /\ rlast.base = rlast.before + rlast.first
    /\ OnlineReserved = rlast.before

\* the sectors recorded in the reservations of tasks 1 .. n
RECURSIVE SumRes(_)
SumRes(n) == IF n = 0 THEN 0 ELSE res[n].sectors + SumRes(n - 1)

NBuckets    == 6
FirstBucket == 1
NReserve    == 2
MaxFifo     == 1
MaxOpen     == 2

Reserves == 0 .. NReserve - 1

\* A u64 whose top bit is set is written as its two's complement reading, a
\* negative number: these are the wrapped-around values.
max(a, b) == IF a >= b THEN a ELSE b

\* u64 total = ca->mi.nbuckets - ca->mi.first_bucket;
total_buckets == NBuckets - FirstBucket

\* WARN_ONCE(cond, ...) evaluates to cond; it prints its message the first
\* time cond is true and sets its once-flag
WARN_ONCE(cond) == cond

\* a __dev_buckets_available without the WARN_ONCE test: the u64 subtraction
\* wraps around
__dev_buckets_available_nowarn(stats) ==
    total_buckets - stats.buckets_unavailable

\* if (WARN_ONCE(stats.buckets_unavailable > total, ...)) return 0;
\* return total - stats.buckets_unavailable;
__dev_buckets_available(stats) ==
    IF WARN_ONCE(stats.buckets_unavailable > total_buckets) THEN 0
    ELSE total_buckets - stats.buckets_unavailable

RECURSIVE SumFree(_)
SumFree(n) == IF n = 0 THEN 0 ELSE free[n - 1] + SumFree(n - 1)

\* a __dev_buckets_reclaimable that leaves the incoming fifo out of its sum
ReclaimableLocal_noinc(stats) ==
    __dev_buckets_available(stats) - SumFree(NReserve) - nr_open_buckets

\* s64 available = __dev_buckets_available(ca, stats);
\* under freelist_lock: available -= fifo_used(&ca->free[i]) for each i,
\* available -= fifo_used(&ca->free_inc); available -= ca->nr_open_buckets;
ReclaimableLocal(stats) ==
    __dev_buckets_available(stats) - SumFree(NReserve) - free_inc - nr_open_buckets

\* a __dev_buckets_reclaimable that returns available unclamped
__dev_buckets_reclaimable_noclamp(stats) == ReclaimableLocal(stats)

\* return max(available, 0LL);
__dev_buckets_reclaimable(stats) == max(ReclaimableLocal(stats), 0)

ReclaimIdle ==
    /\ buckets_unavailable = 0 /\ free = <<>> /\ free_inc = 0
    /\ nr_open_buckets = 0 /\ rd_pc = "idle"
    /\ rd_stats = [buckets_unavailable |-> 0] /\ rd_available = 0 /\ rd_ret = 0
    /\ rd_op = "none" /\ warned = FALSE

ReclaimInit ==
    /\ buckets_unavailable \in 0 .. (NBuckets - FirstBucket) + 1
    /\ free = [i \in Reserves |-> 0]
    /\ free_inc = 0
    /\ nr_open_buckets = 0
    /\ rd_pc = "idle"
    /\ rd_stats = [buckets_unavailable |-> 0]
    /\ rd_op = "none"
    /\ rd_available = 0
    /\ rd_ret = 0
    /\ warned = FALSE

\* the device's usage changes: a bucket becomes unavailable or available
UsageChange(d) ==
    /\ ReclaimFrame
    /\ buckets_unavailable + d \in 0 .. (NBuckets - FirstBucket) + 1
    /\ buckets_unavailable' = buckets_unavailable + d
    /\ UNCHANGED <<free, free_inc, nr_open_buckets, rd_pc, rd_stats, rd_op,
                   rd_available, rd_ret, warned>>

\* invalidate: a bucket is put on the incoming queue
PushFreeInc ==
    /\ ReclaimFrame
    /\ free_inc < MaxFifo
    /\ free_inc' = free_inc + 1
    /\ UNCHANGED <<buckets_unavailable, free, nr_open_buckets, rd_pc, rd_stats,
                   rd_op, rd_available, rd_ret, warned>>

\* a bucket moves from the incoming queue to freelist i
PushFree(i) ==
    /\ ReclaimFrame
    /\ free_inc > 0 /\ free[i] < MaxFifo
    /\ free_inc' = free_inc - 1
    /\ free' = [free EXCEPT ![i] = @ + 1]
    /\ UNCHANGED <<buckets_unavailable, nr_open_buckets, rd_pc, rd_stats,
                   rd_op, rd_available, rd_ret, warned>>

\* allocate: a bucket is popped from freelist i and becomes open
Allocate(i) ==
    /\ ReclaimFrame
    /\ free[i] > 0 /\ nr_open_buckets < MaxOpen
    /\ free' = [free EXCEPT ![i] = @ - 1]
    /\ nr_open_buckets' = nr_open_buckets + 1
    /\ UNCHANGED <<buckets_unavailable, free_inc, rd_pc, rd_stats, rd_op,
                   rd_available, rd_ret, warned>>

\* an open bucket is closed
CloseOpen ==
    /\ ReclaimFrame
    /\ nr_open_buckets > 0
    /\ nr_open_buckets' = nr_open_buckets - 1
    /\ UNCHANGED <<buckets_unavailable, free, free_inc, rd_pc, rd_stats, rd_op,
                   rd_available, rd_ret, warned>>

\* bch2_dev_usage_read(ca): the argument of __dev_buckets_reclaimable
DevUsageRead ==
    /\ ReclaimFrame
    /\ rd_pc \in {"idle", "done"}
    /\ rd_stats' = [buckets_unavailable |-> buckets_unavailable]
    /\ rd_pc' = "stats"
    /\ UNCHANGED <<buckets_unavailable, free, free_inc, nr_open_buckets,
                   rd_op, rd_available, rd_ret, warned>>

\* dev_buckets_available(ca): __dev_buckets_available on the usage just read
DevBucketsAvailable ==
    /\ ReclaimFrame
    /\ rd_pc = "stats"
    /\ rd_op' = "available"
    /\ rd_available' = __dev_buckets_available(rd_stats)
    /\ rd_ret' = __dev_buckets_available(rd_stats)
    /\ warned' = (warned \/ WARN_ONCE(rd_stats.buckets_unavailable > total_buckets))
    /\ rd_pc' = "done"
    /\ UNCHANGED <<buckets_unavailable, free, free_inc, nr_open_buckets, rd_stats>>

\* __dev_buckets_reclaimable(ca, stats), its sums taken under freelist_lock
DevBucketsReclaimable ==
    /\ ReclaimFrame
    /\ rd_pc = "stats"
    /\ rd_op' = "reclaimable"
    /\ rd_available' = ReclaimableLocal(rd_stats)
    /\ rd_ret' = __dev_buckets_reclaimable(rd_stats)
    /\ warned' = (warned \/ WARN_ONCE(rd_stats.buckets_unavailable > total_buckets))
    /\ rd_pc' = "done"
    /\ UNCHANGED <<buckets_unavailable, free, free_inc, nr_open_buckets, rd_stats>>

\* C11: dev_buckets_available returns total_buckets - buckets_unavailable,
\* total_buckets being nbuckets - first_bucket, whenever buckets_unavailable
\* is at most total_buckets; when buckets_unavailable exceeds total_buckets
\* it returns 0 and the warning has been raised.  The result is never a
\* wrapped-around (negative) value.
C11_AvailableClamped ==
    (rd_pc = "done" /\ rd_op = "available") =>
        LET u == rd_stats.buckets_unavailable
        IN  /\ u <= NBuckets - FirstBucket => rd_ret = (NBuckets - FirstBucket) - u
            /\ u > NBuckets - FirstBucket => (rd_ret = 0 /\ warned)
            /\ rd_ret >= 0

\* buckets_unavailable was one more than the device has buckets: the call
\* returned 0 and warned
C11_Witness ==
    /\ rd_pc = "done" /\ rd_op = "available"
    /\ rd_stats.buckets_unavailable = (NBuckets - FirstBucket) + 1
    /\ rd_ret = 0 /\ warned

\* C12: __dev_buckets_reclaimable returns the available buckets of the usage
\* it was given, less the sizes of the freelists (each reserve's free fifo
\* and the incoming fifo free_inc) as they are at the call, less the number
\* of open buckets, and 0 when that difference is negative.
C12_ReclaimableFormula ==
    [][(rd_pc = "stats" /\ rd_pc' = "done" /\ rd_op' = "reclaimable") =>
        LET u == rd_stats.buckets_unavailable
            a == IF u > NBuckets - FirstBucket THEN 0 ELSE (NBuckets - FirstBucket) - u
            f == SumFree(NReserve) + free_inc
            r == a - f - nr_open_buckets
        IN  rd_ret' = IF r < 0 THEN 0 ELSE r]_vars

\* a call that found buckets on a freelist, on the incoming fifo and open,
\* and still returned a positive count
C12_Witness ==
    /\ rd_pc = "done" /\ rd_op = "reclaimable"
    /\ free[0] > 0 /\ free_inc > 0 /\ nr_open_buckets > 0
    /\ rd_ret > 0 /\ rd_ret = rd_available
    /\ rd_ret = __dev_buckets_available(rd_stats) - SumFree(NReserve)
                   - free_inc - nr_open_buckets

\* C10: whatever the usage snapshot, the freelists and the open-bucket count
\* are, and whatever the allocator did between the usage read and the
\* freelist read, __dev_buckets_reclaimable returns a value >= 0, never a
\* wrapped-around one.
C10_ReclaimableNonNegative ==
    rd_pc = "done" => rd_ret >= 0

\* the usage snapshot was stale when the freelists were read, the local sum
\* went below zero, and the call returned 0
C10_Witness ==
    /\ rd_pc = "done"
    /\ rd_stats.buckets_unavailable # buckets_unavailable
    /\ rd_available < 0
    /\ rd_ret = 0

(***************************************************************************)
(* FILESYSTEM USAGE: fs_usage_u64s, bch2_fs_usage_read                     *)
(***************************************************************************)
NSchemes          == 2
MaxCount          == 1
FsUsageHeaderU64s == 1

Schemes == 1 .. NSchemes

InsertAt(a, i, x) == SubSeq(a, 1, i - 1) \o <<x>> \o SubSeq(a, i, Len(a))

RemoveAt(a, i) == SubSeq(a, 1, i - 1) \o SubSeq(a, i + 1, Len(a))

\* an fs_usage_u64s that leaves c->replicas.nr out
fs_usage_u64s_fixed == FsUsageHeaderU64s

\* return sizeof(struct bch_fs_usage) / sizeof(u64) + READ_ONCE(c->replicas.nr);
fs_usage_u64s == FsUsageHeaderU64s + Len(replicas)

\* a this_cpu_add that stores the delta over the counter
this_cpu_write(u, i, d) == [u EXCEPT ![i] = d]

\* this_cpu_add(counter, d) on counter i of one cpu's array
this_cpu_add(u, i, d) == [u EXCEPT ![i] = @ + d]

\* acc_u64s: the first n counters of src are added into buf; a src shorter
\* than n is read past its end and yields g there
acc_u64s(buf, src, n, g) ==
    [i \in 1 .. n |-> buf[i] + (IF i <= Len(src) THEN src[i] ELSE g)]

RECURSIVE SumUsage(_, _)
SumUsage(n, i) == IF n = 0 THEN 0 ELSE usage[n - 1][i] + SumUsage(n - 1, i)

\* counter i summed over the base and every cpu
TotalUsage(i) == usage_base[i] + SumUsage(NCpus, i)

\* all entry counters together
RECURSIVE SumEntries(_)
SumEntries(n) ==
    IF n = 0 THEN 0 ELSE TotalUsage(FsUsageHeaderU64s + n) + SumEntries(n - 1)

\* the seat of scheme s among the entries, which are kept sorted
EntryPos(s) == 1 + Cardinality({i \in 1 .. Len(replicas) : replicas[i] < s})

\* a reader that never retries
ReadRetry_never(changed) == FALSE

\* the read starts over when the usage was re-laid or folded under it
ReadRetry(changed) == changed

Reading == fr_pc \in {"fold", "check"}

AllTxFinal == \A t \in DOMAIN tx : tx[t].pc \in {"committed", "aborted"}

UsageIdle ==
    /\ replicas = <<>> /\ usage_base = <<>> /\ usage = <<>>
    /\ fr_pc = "idle" /\ fr_u64s = 0 /\ fr_buf = <<>> /\ fr_cpu = 0
    /\ fr_changed = FALSE /\ fr_layout = <<>> /\ fr_mixed = FALSE
    /\ fr_quiet = FALSE
    /\ tx = <<>> /\ bmark = 0

ReaderInit ==
    /\ fr_pc = "idle" /\ fr_u64s = 0 /\ fr_buf = <<>> /\ fr_cpu = 0
    /\ fr_changed = FALSE /\ fr_layout = <<>> /\ fr_mixed = FALSE
    /\ fr_quiet = FALSE

\* one replica entry or none, every counter zero, no transactions
FsUsageInit ==
    /\ replicas \in {<<>>, <<1>>}
    /\ usage_base = [i \in 1 .. FsUsageHeaderU64s + Len(replicas) |-> 0]
    /\ usage = [p \in Cpus |-> [i \in 1 .. FsUsageHeaderU64s + Len(replicas) |-> 0]]
    /\ ReaderInit
    /\ tx = <<>> /\ bmark = 0

\* a replication scheme comes into use: its entry is inserted in every array
ReplicasAdd(s) ==
    /\ UsageFrame
    /\ \A i \in 1 .. Len(replicas) : replicas[i] # s
    /\ LET e == EntryPos(s)
       IN  /\ replicas' = InsertAt(replicas, e, s)
           /\ usage_base' = InsertAt(usage_base, FsUsageHeaderU64s + e, 0)
           /\ usage' = [p \in Cpus |-> InsertAt(usage[p], FsUsageHeaderU64s + e, 0)]
    /\ fr_changed' = Reading
    /\ UNCHANGED <<fr_pc, fr_u64s, fr_buf, fr_cpu, fr_layout, fr_mixed,
                   fr_quiet, tx, bmark>>

\* an entry with nothing accounted to it is dropped from every array
ReplicasRemove(e) ==
    /\ UsageFrame
    /\ e \in 1 .. Len(replicas)
    /\ usage_base[FsUsageHeaderU64s + e] = 0
    /\ \A p \in Cpus : usage[p][FsUsageHeaderU64s + e] = 0
    /\ replicas' = RemoveAt(replicas, e)
    /\ usage_base' = RemoveAt(usage_base, FsUsageHeaderU64s + e)
    /\ usage' = [p \in Cpus |-> RemoveAt(usage[p], FsUsageHeaderU64s + e)]
    /\ fr_changed' = Reading
    /\ UNCHANGED <<fr_pc, fr_u64s, fr_buf, fr_cpu, fr_layout, fr_mixed,
                   fr_quiet, tx, bmark>>

\* addDelta: cpu p accounts a sector to entry e
AddDelta(p, e) ==
    /\ UsageFrame
    /\ e \in 1 .. Len(replicas)
    /\ SumEntries(Len(replicas)) < MaxCount
    /\ usage' = [usage EXCEPT ![p] = this_cpu_add(@, FsUsageHeaderU64s + e, 1)]
    /\ UNCHANGED <<replicas, usage_base, fr_pc, fr_u64s, fr_buf, fr_cpu,
                   fr_changed, fr_layout, fr_mixed, fr_quiet, tx, bmark>>

\* bch2_fs_usage_acc_to_base: the cpus' counters are moved into the base
AccToBase ==
    /\ UsageFrame
    /\ \E p \in Cpus : \E i \in 1 .. Len(usage[p]) : usage[p][i] # 0
    /\ usage_base' = [i \in 1 .. Len(usage_base) |-> TotalUsage(i)]
    /\ usage' = [p \in Cpus |-> [i \in 1 .. Len(usage[p]) |-> 0]]
    /\ fr_changed' = Reading
    /\ UNCHANGED <<replicas, fr_pc, fr_u64s, fr_buf, fr_cpu, fr_layout,
                   fr_mixed, fr_quiet, tx, bmark>>

\* bch2_fs_usage_read: the buffer is sized with fs_usage_u64s and the base
\* copied into it
FsUsageReadBegin ==
    /\ UsageFrame
    /\ fr_pc \in {"idle", "retry", "done"}
    /\ fr_u64s' = fs_usage_u64s
    /\ fr_buf' = [i \in 1 .. fs_usage_u64s |-> usage_base[i]]
    /\ fr_cpu' = 0
    /\ fr_changed' = FALSE
    /\ fr_layout' = replicas
    /\ fr_mixed' = FALSE
    /\ fr_quiet' = AllTxFinal
    /\ fr_pc' = "fold"
    /\ UNCHANGED <<replicas, usage_base, usage, tx, bmark>>

\* bch2_fs_usage_read: the counters of one cpu are folded into the buffer
FsUsageReadFold ==
    /\ UsageFrame
    /\ fr_pc = "fold"
    /\ \E g \in {0, 1} :
          /\ (Len(usage[fr_cpu]) >= fr_u64s) => g = 0
          /\ fr_buf' = acc_u64s(fr_buf, usage[fr_cpu], fr_u64s, g)
    /\ fr_mixed' = (fr_mixed \/ replicas # fr_layout)
    /\ fr_cpu' = IF fr_cpu = NCpus - 1 THEN 0 ELSE fr_cpu + 1
    /\ fr_pc' = IF fr_cpu = NCpus - 1 THEN "check" ELSE "fold"
    /\ UNCHANGED <<replicas, usage_base, usage, fr_u64s, fr_changed, fr_layout,
                   fr_quiet, tx, bmark>>

\* bch2_fs_usage_read: return the buffer, or start over
FsUsageReadCheck ==
    /\ UsageFrame
    /\ fr_pc = "check"
    /\ fr_pc' = IF ReadRetry(fr_changed) THEN "retry" ELSE "done"
    /\ UNCHANGED <<replicas, usage_base, usage, fr_u64s, fr_buf, fr_cpu,
                   fr_changed, fr_layout, fr_mixed, fr_quiet, tx, bmark>>

\* C13: bch2_fs_usage_read never returns a snapshot that mixes two layouts of
\* the replica entries: every fold behind a returned snapshot read the same
\* layout, the snapshot has the header and exactly that layout's number of
\* entries, and a read under which the entries changed starts over instead
\* of returning.
C13_NoTornRead ==
    /\ [](fr_pc = "done" =>
            /\ ~fr_mixed
            /\ fr_u64s = FsUsageHeaderU64s + Len(fr_layout)
            /\ Len(fr_buf) = FsUsageHeaderU64s + Len(fr_layout))
    /\ [][(fr_pc = "check" /\ fr_mixed) => fr_pc' # "done"]_vars

\* a read whose folds saw two layouts is starting over
C13_Witness ==
    /\ fr_pc = "retry"
    /\ fr_mixed
    /\ fr_u64s # FsUsageHeaderU64s + Len(replicas)

(***************************************************************************)
(* MARKING TRANSACTIONS: bch2_trans_mark_key, bch2_trans_fs_usage_apply    *)
(***************************************************************************)
NTrans       == 3
DeltaSectors == 10
MaxRestarts  == 1

Trans == 1 .. NTrans

\* sectors accounted to the one replica entry, and dirty in the bucket the
\* keys point into, before any transaction ran
InitSectors == NTrans * DeltaSectors

\* A key is its sector count under replica entry 1; 0 is no key.
\* insert, delete, overwrite
KeyPairs == <<[old |-> 0, new |-> DeltaSectors],
              [old |-> DeltaSectors, new |-> 0],
              [old |-> DeltaSectors, new |-> DeltaSectors]>>

\* the cpu transaction t commits on
TxCpu(t) == (t - 1) % NCpus

\* bch2_trans_mark_key(trans, old, new): a negative delta for the old key's
\* sectors, a positive one for the new key's
bch2_trans_mark_key(o, n) ==
    (IF o # 0 THEN <<[r |-> 1, delta |-> 0 - o]>> ELSE <<>>) \o
    (IF n # 0 THEN <<[r |-> 1, delta |-> n]>> ELSE <<>>)

\* a restart that keeps the replicas delta list
trans_reset_keep(list) == list

\* a restart discards the replicas delta list
trans_reset(list) == <<>>

\* a bch2_trans_mark_key that accounts its deltas at once
trans_mark_key_usage_direct(u, list) ==
    IF list = <<>> THEN u
    ELSE this_cpu_add(u, FsUsageHeaderU64s + list[1].r, list[1].delta)

\* the cpu's counters after bch2_trans_mark_key: as before, the deltas are
\* in the list only
trans_mark_key_usage(u, list) == u

\* bch2_trans_fs_usage_apply(trans, list): every delta of the list is added
\* to this cpu's counter of its replica entry
RECURSIVE bch2_trans_fs_usage_apply(_, _)
bch2_trans_fs_usage_apply(u, list) ==
    IF list = <<>> THEN u
    ELSE bch2_trans_fs_usage_apply(
             this_cpu_add(u, FsUsageHeaderU64s + Head(list).r, Head(list).delta),
             Tail(list))

RECURSIVE SumDeltas(_)
SumDeltas(list) == IF list = <<>> THEN 0 ELSE Head(list).delta + SumDeltas(Tail(list))

\* what the key change of transaction t amounts to
TxDelta(t) == tx[t].new - tx[t].old

RECURSIVE SumTx(_)
SumTx(S) == IF S = {} THEN 0
            ELSE LET t == CHOOSE x \in S : TRUE IN TxDelta(t) + SumTx(S \ {t})

Committed == {t \in DOMAIN tx : tx[t].pc = "committed"}

\* one replica entry holding InitSectors, and NTrans transactions making the
\* same kind of key change
TransInit ==
    /\ replicas = <<1>>
    /\ usage_base = [i \in 1 .. FsUsageHeaderU64s + 1 |->
                        IF i = FsUsageHeaderU64s + 1 THEN InitSectors ELSE 0]
    /\ usage = [p \in Cpus |-> [i \in 1 .. FsUsageHeaderU64s + 1 |-> 0]]
    /\ ReaderInit
    /\ \E k \in 1 .. Len(KeyPairs) :
          tx = [t \in Trans |-> [pc |-> "start", old |-> KeyPairs[k].old,
                                 new |-> KeyPairs[k].new, list |-> <<>>,
                                 restarted |-> FALSE]]
    /\ bmark = InitSectors

\* transaction t calls bch2_trans_mark_key on its key pair
TransMarkKey(t) ==
    /\ UsageFrame
    /\ tx[t].pc = "start"
    /\ LET list == bch2_trans_mark_key(tx[t].old, tx[t].new)
       IN  /\ tx' = [tx EXCEPT ![t].pc = "staged", ![t].list = @ \o list]
           /\ usage' = [usage EXCEPT ![TxCpu(t)] = trans_mark_key_usage(@, list)]
    /\ UNCHANGED <<replicas, usage_base, fr_pc, fr_u64s, fr_buf, fr_cpu,
                   fr_changed, fr_layout, fr_mixed, fr_quiet, bmark>>

\* transaction t restarts: nothing it staged survives
TransRestart(t) ==
    /\ UsageFrame
    /\ tx[t].pc = "staged"
    /\ Cardinality({x \in Trans : tx[x].restarted /\ x # t}) < MaxRestarts
    /\ tx' = [tx EXCEPT ![t].pc = "start", ![t].list = trans_reset(@),
                        ![t].restarted = TRUE]
    /\ UNCHANGED <<replicas, usage_base, usage, fr_pc, fr_u64s, fr_buf, fr_cpu,
                   fr_changed, fr_layout, fr_mixed, fr_quiet, bmark>>

\* transaction t is abandoned
TransAbort(t) ==
    /\ UsageFrame
    /\ tx[t].pc = "staged"
    /\ tx' = [tx EXCEPT ![t].pc = "aborted", ![t].list = <<>>]
    /\ UNCHANGED <<replicas, usage_base, usage, fr_pc, fr_u64s, fr_buf, fr_cpu,
                   fr_changed, fr_layout, fr_mixed, fr_quiet, bmark>>

\* transaction t commits: bch2_trans_fs_usage_apply on its list, and the
\* staged bucket mark change through bucket_cmpxchg
TransCommit(t) ==
    /\ UsageFrame
    /\ tx[t].pc = "staged"
    /\ usage' = [usage EXCEPT ![TxCpu(t)] = bch2_trans_fs_usage_apply(@, tx[t].list)]
    /\ bmark' = bmark + SumDeltas(tx[t].list)
    /\ tx' = [tx EXCEPT ![t].pc = "committed", ![t].list = <<>>]
    /\ UNCHANGED <<replicas, usage_base, fr_pc, fr_u64s, fr_buf, fr_cpu,
                   fr_changed, fr_layout, fr_mixed, fr_quiet>>

\* C14: a bch2_fs_usage_read begun after every transaction has committed or
\* aborted returns, for the replica entry, its initial sectors plus the
\* deltas of all committed transactions: no committed delta is lost.  When
\* all NTrans transactions insert a key of DeltaSectors sectors and all
\* commit, it returns the initial sectors plus NTrans * DeltaSectors.
C14_NoLostDelta ==
    (fr_pc = "done" /\ fr_quiet) =>
        /\ fr_buf[FsUsageHeaderU64s + 1] = InitSectors + SumTx(Committed)
        /\ (\A t \in Trans : tx[t].pc = "committed" /\ tx[t].old = 0) =>
               fr_buf[FsUsageHeaderU64s + 1] = InitSectors + NTrans * DeltaSectors

\* all transactions inserted and committed, on more than one cpu, and the
\* read returned the initial sectors plus NTrans * DeltaSectors
C14_Witness ==
    /\ fr_pc = "done" /\ fr_quiet
    /\ \A t \in Trans : tx[t].pc = "committed" /\ tx[t].old = 0
    /\ \E p \in Cpus : usage[p][FsUsageHeaderU64s + 1] > DeltaSectors
    /\ fr_buf[FsUsageHeaderU64s + 1] = InitSectors + NTrans * DeltaSectors

\* C15: however often a transaction restarted before it committed, the
\* usage total of the replica entry and the bucket's dirty sectors are what
\* one bch2_trans_mark_key and one apply per committed transaction give:
\* the initial value plus new - old of every committed transaction.
C15_RestartIdempotent ==
    /\ TotalUsage(FsUsageHeaderU64s + 1) = InitSectors + SumTx(Committed)
    /\ bmark = InitSectors + SumTx(Committed)

\* every transaction has finished, and one that restarted has committed an
\* insert
C15_Witness ==
    /\ AllTxFinal
    /\ \E t \in Trans : /\ tx[t].pc = "committed" /\ tx[t].restarted
                        /\ tx[t].old = 0
    /\ TotalUsage(FsUsageHeaderU64s + 1) # InitSectors

\* C16: a step in which a transaction stages (bch2_trans_mark_key), restarts
\* or aborts leaves the usage counters, the replica entries and the bucket
\* mark exactly as they were.
C16_StagingFrame ==
    [][(\E t \in Trans : /\ tx'[t] # tx[t]
                         /\ tx'[t].pc \in {"staged", "start", "aborted"})
        => /\ usage' = usage /\ usage_base' = usage_base
           /\ replicas' = replicas /\ bmark' = bmark]_vars

\* a transaction has staged an insert and another has aborted, and the usage
\* and the bucket mark are as they were at the start
C16_Witness ==
    /\ \E t \in Trans : tx[t].pc = "staged" /\ tx[t].list # <<>>
    /\ \E t \in Trans : tx[t].pc = "aborted"
    /\ Committed = {}
    /\ TotalUsage(FsUsageHeaderU64s + 1) = InitSectors /\ bmark = InitSectors

(***************************************************************************)
(* BUCKET LIFE CYCLE: allocate, release, invalidate                        *)
(***************************************************************************)
NAllocBuckets == 2
MaxInval      == 2

ABuckets == 1 .. NAllocBuckets

EmptyMark == [dirty_sectors |-> 0, cached_sectors |-> 0, stripe |-> FALSE]

\* an allocate that advances the generation
alloc_gen_bump(g) == U8(g + 1)

\* the generation of a bucket after allocate: as before
alloc_gen(g) == g

\* a release that advances the generation
release_gen_bump(g) == U8(g + 1)

\* the generation of a bucket after release: as before
release_gen(g) == g

\* the generation of a bucket after invalidate: advanced by one, 8 bits wide
invalidate_gen(g) == U8(g + 1)

AllocIdle ==
    /\ bkt_gen = <<>> /\ bm = <<>> /\ bstate = <<>> /\ ninval = 0
    /\ alast = [op |-> "none", b |-> 0]

\* every bucket on the freelist with an empty mark; generations start just
\* below the 8-bit wrap or at 0
AllocInit ==
    /\ bkt_gen \in [ABuckets -> {0, 255}]
    /\ bm = [b \in ABuckets |-> EmptyMark]
    /\ bstate = [b \in ABuckets |-> "free"]
    /\ ninval = 0
    /\ alast = [op |-> "none", b |-> 0]

\* allocate: bucket b is popped from the freelist and becomes open
BucketAllocate(b) ==
    /\ AllocFrame
    /\ bstate[b] = "free"
    /\ bstate' = [bstate EXCEPT ![b] = "open"]
    /\ bkt_gen' = [bkt_gen EXCEPT ![b] = alloc_gen(@)]
    /\ alast' = [op |-> "allocate", b |-> b]
    /\ UNCHANGED <<bm, ninval>>

\* release after a failed or aborted write: back to the freelist
BucketReleaseAbort(b) ==
    /\ AllocFrame
    /\ bstate[b] = "open"
    /\ bstate' = [bstate EXCEPT ![b] = "free"]
    /\ bkt_gen' = [bkt_gen EXCEPT ![b] = release_gen(@)]
    /\ alast' = [op |-> "release_abort", b |-> b]
    /\ UNCHANGED <<bm, ninval>>

\* release after a completed write: the bucket is in use, marked through
\* markKey with the sectors written
BucketReleaseWritten(b, sectors) ==
    /\ AllocFrame
    /\ bstate[b] = "open"
    /\ bstate' = [bstate EXCEPT ![b] = "used"]
    /\ bm' = [bm EXCEPT ![b].dirty_sectors = sectors]
    /\ bkt_gen' = [bkt_gen EXCEPT ![b] = release_gen(@)]
    /\ alast' = [op |-> "release_written", b |-> b]
    /\ UNCHANGED ninval

\* the keys pointing into bucket b are deleted or moved: markKey takes its
\* dirty sectors away and leaves them cached
BucketKeysDropped(b) ==
    /\ AllocFrame
    /\ bstate[b] = "used" /\ bm[b].dirty_sectors > 0
    /\ bm' = [bm EXCEPT ![b].cached_sectors = bm[b].dirty_sectors,
                        ![b].dirty_sectors = 0]
    /\ alast' = [op |-> "mark_key", b |-> b]
    /\ UNCHANGED <<bkt_gen, bstate, ninval>>

\* invalidate: an available bucket gets the next generation and an empty
\* mark, and goes onto the incoming queue
BucketInvalidate(b) ==
    /\ AllocFrame
    /\ ninval < MaxInval
    /\ bstate[b] = "used" /\ is_available_bucket(bm[b])
    /\ bkt_gen' = [bkt_gen EXCEPT ![b] = invalidate_gen(@)]
    /\ bm' = [bm EXCEPT ![b] = EmptyMark]
    /\ bstate' = [bstate EXCEPT ![b] = "incoming"]
    /\ ninval' = ninval + 1
    /\ alast' = [op |-> "invalidate", b |-> b]

\* a bucket on the incoming queue joins the freelist
BucketToFreelist(b) ==
    /\ AllocFrame
    /\ bstate[b] = "incoming"
    /\ bstate' = [bstate EXCEPT ![b] = "free"]
    /\ alast' = [op |-> "push_free", b |-> b]
    /\ UNCHANGED <<bkt_gen, bm, ninval>>

NReaders == 2
NArrays  == 2

Readers == 1 .. NReaders
Arrays  == 1 .. NArrays

\* what a reader may hold when it calls the accessor
Locks == {"mark_lock", "gc_lock", "bucket_lock"}
Prots == Locks \cup {"rcu", "none"}

NoReader == [pc |-> "idle", prot |-> "none", gc |-> FALSE, ref |-> 0,
             cond |-> FALSE]

\* a condition that leaves !ca->fs out
__bucket_array_cond_nofs(prot) ==
    \/ prot = "mark_lock"
    \/ prot = "gc_lock"
    \/ prot = "bucket_lock"

\* the condition __bucket_array and bucket_gens hand to rcu_dereference_check:
\* !ca->fs || percpu_rwsem_is_held(&ca->fs->mark_lock) ||
\* lockdep_is_held(&ca->fs->gc_lock) || lockdep_is_held(&ca->bucket_lock)
__bucket_array_cond(prot) ==
    \/ ~ca_fs
    \/ prot = "mark_lock"
    \/ prot = "gc_lock"
    \/ prot = "bucket_lock"

\* rcu_dereference_check(p, c) is satisfied by c or by an RCU read-side
\* section, as the one ptr_stale opens around bucket_gen
rcu_dereference_check(c, prot) == c \/ prot = "rcu"

\* a retirement that waits for nobody
GraceReaders_none == {}

\* the read-side sections open now: a retired array waits for these
GraceReaders == {r \in Readers : rr[r].pc # "idle" /\ rr[r].prot = "rcu"}

LockHeld == \E r \in Readers : rr[r].pc # "idle" /\ rr[r].prot \in Locks

ArrayIdle ==
    /\ ca_fs = FALSE /\ buckets = <<>> /\ arr_state = <<>> /\ grace = <<>>
    /\ rr = <<>>

\* array 1 is the live array; there is no gc array; the device belongs to a
\* filesystem or to none
ArrayInit ==
    /\ ca_fs \in BOOLEAN
    /\ buckets = [g \in BOOLEAN |-> IF g THEN 0 ELSE 1]
    /\ arr_state = [a \in Arrays |-> IF a = 1 THEN "published" ELSE "unused"]
    /\ grace = [a \in Arrays |-> {}]
    /\ rr = [r \in Readers |-> NoReader]

\* reader r takes one of the locks, or rcu_read_lock, or nothing
ReadEnter(r, prot) ==
    /\ ArrayFrame
    /\ rr[r].pc = "idle"
    /\ rr' = [rr EXCEPT ![r] = [NoReader EXCEPT !.pc = "in", !.prot = prot]]
    /\ UNCHANGED <<ca_fs, buckets, arr_state, grace>>

\* reader r calls __bucket_array(ca, gc).  When neither the condition nor an
\* RCU read-side section covers the call, what rcu_dereference_check does is
\* not fixed by buckets.h: the read is refused, or goes on.
BucketArray(r, gc) ==
    /\ ArrayFrame
    /\ rr[r].pc = "in"
    /\ LET c == __bucket_array_cond(rr[r].prot)
       IN  \E refused \in BOOLEAN :
              /\ refused => ~rcu_dereference_check(c, rr[r].prot)
              /\ rr' = [rr EXCEPT ![r].pc = IF refused THEN "refused" ELSE "ref",
                                  ![r].gc = gc, ![r].cond = c,
                                  ![r].ref = IF refused THEN 0 ELSE buckets[gc]]
    /\ UNCHANGED <<ca_fs, buckets, arr_state, grace>>

\* reader r drops its reference and what it held
ReadExit(r) ==
    /\ ArrayFrame
    /\ rr[r].pc \in {"in", "ref", "refused"}
    /\ rr' = [rr EXCEPT ![r] = NoReader]
    /\ grace' = [a \in Arrays |-> grace[a] \ {r}]
    /\ UNCHANGED <<ca_fs, buckets, arr_state>>

\* gc starts: a gc array is allocated and published as ca->buckets[1]
GcAlloc(a) ==
    /\ ArrayFrame
    /\ ca_fs /\ ~LockHeld
    /\ arr_state[a] = "unused" /\ buckets[TRUE] = 0
    /\ buckets' = [buckets EXCEPT ![TRUE] = a]
    /\ arr_state' = [arr_state EXCEPT ![a] = "published"]
    /\ UNCHANGED <<ca_fs, grace, rr>>

\* the gc array is published as the live array; the previous live array is
\* retired and waits for the read-side sections open now
GcSwap ==
    /\ ArrayFrame
    /\ ca_fs /\ ~LockHeld
    /\ buckets[TRUE] # 0
    /\ buckets' = [g \in BOOLEAN |-> IF g THEN 0 ELSE buckets[TRUE]]
    /\ arr_state' = [arr_state EXCEPT ![buckets[FALSE]] = "retired"]
    /\ grace' = [grace EXCEPT ![buckets[FALSE]] = GraceReaders]
    /\ UNCHANGED <<ca_fs, rr>>

\* resize: a new live array is published, the previous one retired
Resize(a) ==
    /\ ArrayFrame
    /\ ca_fs /\ ~LockHeld
    /\ arr_state[a] = "unused"
    /\ buckets' = [buckets EXCEPT ![FALSE] = a]
    /\ arr_state' = [arr_state EXCEPT ![a] = "published",
                                      ![buckets[FALSE]] = "retired"]
    /\ grace' = [grace EXCEPT ![buckets[FALSE]] = GraceReaders]
    /\ UNCHANGED <<ca_fs, rr>>

\* a retired array is freed once every read-side section it waited for has
\* ended
ArrayFree(a) ==
    /\ ArrayFrame
    /\ arr_state[a] = "retired" /\ grace[a] = {}
    /\ arr_state' = [arr_state EXCEPT ![a] = "freed"]
    /\ UNCHANGED <<ca_fs, buckets, grace, rr>>

\* the accessor let reader r through without complaint
Covered(r) == rcu_dereference_check(rr[r].cond, rr[r].prot)

\* C18: after a gc-to-live swap or a resize has published a new array, the
\* previous array is freed only once no reader that got its reference before
\* the swap still holds it: no reader that the accessor's check covers ever
\* holds a reference to a freed array, and an array is only freed when no
\* such reader refers to it.
C18_NoReaderOfFreedArray ==
    /\ [](\A r \in Readers :
            (rr[r].pc = "ref" /\ rr[r].ref # 0 /\ Covered(r)) =>
                arr_state[rr[r].ref] # "freed")
    /\ [][\A a \in Arrays :
            (arr_state[a] # "freed" /\ arr_state'[a] = "freed") =>
                \A r \in Readers : ~(rr[r].pc = "ref" /\ rr[r].ref = a /\ Covered(r))]_vars

\* a reader inside a read-side section still holds the array that a swap or
\* resize has retired, and the array has not been freed
C18_Witness ==
    \E r \in Readers :
        /\ rr[r].pc = "ref" /\ rr[r].prot = "rcu" /\ rr[r].ref # 0
        /\ arr_state[rr[r].ref] = "retired"
        /\ r \in grace[rr[r].ref]
        /\ buckets[FALSE] # rr[r].ref

\* C19 as stated: every read of the gc array that satisfies the accessor's
\* condition is made with mark_lock, gc_lock or bucket_lock held.
C19_GcReadHoldsLock ==
    \A r \in Readers :
        (rr[r].pc = "ref" /\ rr[r].gc /\ rr[r].cond) => rr[r].prot \in Locks

\* C19, amended: the condition of __bucket_array is satisfied exactly when
\* the device belongs to no filesystem (ca->fs is NULL) or the caller holds
\* mark_lock, gc_lock or bucket_lock, for the gc array and the live array
\* alike; a read that is refused held none of the three locks on a device
\* that belongs to a filesystem.
C19_CondIffNoFsOrLock ==
    \A r \in Readers :
        /\ rr[r].pc \in {"ref", "refused"} =>
              (rr[r].cond <=> (~ca_fs \/ rr[r].prot \in Locks))
        /\ rr[r].pc = "refused" => (ca_fs /\ rr[r].prot = "none")

\* on a device that belongs to no filesystem a read of the gc array with no
\* lock held satisfied the condition
C19_Witness ==
    /\ ~ca_fs
    /\ \E r \in Readers :
          rr[r].pc = "ref" /\ rr[r].gc /\ rr[r].prot = "none" /\ rr[r].cond

(***************************************************************************)
(* DEVICE RESIZE: cmd_device_resize of cmd_device.c.                       *)
(*                                                                         *)
(* One run of the command.  The device's member info is what the           *)
(* superblock holds when the command starts; the command's arguments, the  *)
(* device's size and the outcome of every call into the library are inputs *)
(* of the steps.  The -h option prints the usage text and goes on, so it   *)
(* does not show in the model.  rz_calls records each resize operation the *)
(* command invokes, with the bucket count it passes.                       *)
(***************************************************************************)
\* sizes are multiples of 256 bytes up to MaxSizeUnits of them
MaxSizeUnits == 8
\* bucket sizes of the member, in sectors, besides the one of 256 sectors
MaxBucketSectors == 2
\* bucket counts of the member
MaxMemberBuckets == 3
\* online members the opened filesystem may show
MaxOnline == 2

\* a size in bytes, as get_size returns it or bch2_strtoull_h parses it
Sizes == {k * 256 : k \in 0 .. MaxSizeUnits} \cup {512 * 512}
BucketSectorChoices == (1 .. MaxBucketSectors) \cup {256}

\* little-endian fields of the on-disk member: the bytes, low byte first
RECURSIVE le_bytes(_, _)
le_bytes(x, n) == IF n = 0 THEN <<>> ELSE <<x % 256>> \o le_bytes(x \div 256, n - 1)
RECURSIVE le_value(_, _)
le_value(b, i) == IF i > Len(b) THEN 0 ELSE b[i] + 256 * le_value(b, i + 1)
cpu_to_le16(x) == le_bytes(x, 2)
cpu_to_le64(x) == le_bytes(x, 8)
le16_to_cpu(b) == le_value(b, 1)
le64_to_cpu(b) == le_value(b, 1)

\* size >>= 9: bytes to 512-byte sectors
size_to_sectors(size) == size \div 2 ^ 9

\* u64 nbuckets = size / le16_to_cpu(m->bucket_size)
resize_nbuckets(size, m) == size \div le16_to_cpu(m.bucket_size)

\* the shrink test left out
resize_shrinks_never(nbuckets, m) == FALSE

\* nbuckets < le64_to_cpu(m->nbuckets)
resize_shrinks(nbuckets, m) == nbuckets < le64_to_cpu(m.nbuckets)

ShrinkMsg == "Shrinking not supported yet"
\* the messages the command dies with before it reaches the shrink test
EarlyDies == {"Please supply a device to resize", "invalid size",
              "Too many arguments", "is mounted but isn't a block device?!",
              "error reading superblock: dev idx >= sb->nr_devices",
              "error reading superblock: no member info", "error opening",
              "confused: more than one online device?"}

ResizeIdle ==
    /\ rz_pc = "idle"
    /\ rz_m = [bucket_size |-> cpu_to_le16(1), nbuckets |-> cpu_to_le64(1)]
    /\ rz_size = 0
    /\ rz_calls = <<>>
    /\ rz_msg = ""

ResizeInit ==
    /\ rz_pc = "start"
    /\ rz_m \in {[bucket_size |-> cpu_to_le16(bs), nbuckets |-> cpu_to_le64(nb)] :
                    bs \in BucketSectorChoices, nb \in 1 .. MaxMemberBuckets}
    /\ rz_size = 0
    /\ rz_calls = <<>>
    /\ rz_msg = ""

ResizeDie(msg) ==
    /\ rz_pc' = "died"
    /\ rz_msg' = msg
    /\ UNCHANGED rz_calls

\* lines 474-493: the arguments, the size in sectors, the choice of path.
\* has_dev: a device was named; size_arg: "none", "bad" or "ok"; bytes: the
\* device's size or the parsed argument; extra: arguments are left over;
\* mounted: dev_to_mount found the device mounted
ResizeArgs(has_dev, size_arg, bytes, extra, mounted) ==
    /\ ResizeFrame
    /\ rz_pc = "start"
    /\ UNCHANGED rz_m
    /\ IF ~has_dev
       THEN ResizeDie("Please supply a device to resize") /\ UNCHANGED rz_size
       ELSE IF size_arg = "bad"
       THEN ResizeDie("invalid size") /\ UNCHANGED rz_size
       ELSE /\ rz_size' = size_to_sectors(bytes)
            /\ IF extra
               THEN ResizeDie("Too many arguments")
               ELSE /\ rz_pc' = IF mounted THEN "online" ELSE "offline"
                    /\ UNCHANGED <<rz_calls, rz_msg>>

\* lines 494-521: the mounted filesystem is resized through its ioctl.
\* blk: the device is a block device; idx_ok: idx < sb->nr_devices;
\* has_mi: the superblock has a members section
ResizeOnline(blk, idx_ok, has_mi) ==
    /\ ResizeFrame
    /\ rz_pc = "online"
    /\ UNCHANGED <<rz_m, rz_size>>
    /\ IF ~blk THEN ResizeDie("is mounted but isn't a block device?!")
       ELSE IF ~idx_ok
       THEN ResizeDie("error reading superblock: dev idx >= sb->nr_devices")
       ELSE IF ~has_mi
       THEN ResizeDie("error reading superblock: no member info")
       ELSE LET nbuckets == resize_nbuckets(rz_size, rz_m)
            IN  IF resize_shrinks(nbuckets, rz_m)
                THEN ResizeDie(ShrinkMsg)
                ELSE /\ rz_calls' = Append(rz_calls, [fn |-> "bchu_disk_resize",
                                                      nbuckets |-> nbuckets])
                     /\ rz_pc' = "done"
                     /\ UNCHANGED rz_msg

\* lines 522-552: the filesystem is opened from the one device and resized
\* in place.  open_ok: bch2_fs_open succeeded; nonline: the online members
\* of the opened filesystem, the opened device among them; ret: what
\* bch2_dev_resize returns
ResizeOffline(open_ok, nonline, ret) ==
    /\ ResizeFrame
    /\ rz_pc = "offline"
    /\ UNCHANGED <<rz_m, rz_size>>
    /\ IF ~open_ok THEN ResizeDie("error opening")
       ELSE IF nonline > 1
       THEN ResizeDie("confused: more than one online device?")
       ELSE LET nbuckets == resize_nbuckets(rz_size, rz_m)
            IN  IF resize_shrinks(nbuckets, rz_m)
                THEN ResizeDie(ShrinkMsg)
                ELSE /\ rz_calls' = Append(rz_calls, [fn |-> "bch2_dev_resize",
                                                      nbuckets |-> nbuckets])
                     /\ rz_pc' = "done"
                     /\ rz_msg' = IF ret # 0 THEN "resize error" ELSE rz_msg

\* the bucket count the requested size gives, and the member's current one
RequestedNbuckets == rz_size \div le16_to_cpu(rz_m.bucket_size)
CurrentNbuckets == le64_to_cpu(rz_m.nbuckets)

\* C22: device resize never shrinks.  On the online and on the offline path
\* alike, a run that gets as far as the shrink test with a bucket count
\* below the member's current nbuckets dies with "Shrinking not supported
\* yet" and has invoked no resize operation; whatever resize operation a run
\* invokes (bchu_disk_resize or bch2_dev_resize, at most one) is passed the
\* bucket count of the requested size, which is at least the current count.
C22_NeverShrinks ==
    /\ Len(rz_calls) <= 1
    /\ \A i \in DOMAIN rz_calls :
          /\ rz_calls[i].nbuckets = RequestedNbuckets
          /\ rz_calls[i].nbuckets >= CurrentNbuckets
    /\ (rz_pc \in {"done", "died"} /\ rz_msg \notin EarlyDies
            /\ RequestedNbuckets < CurrentNbuckets)
          => (rz_pc = "died" /\ rz_msg = ShrinkMsg /\ rz_calls = <<>>)
    /\ rz_msg = ShrinkMsg
          => (rz_pc = "died" /\ rz_calls = <<>>
              /\ RequestedNbuckets < CurrentNbuckets)

\* a run asked for a size of some buckets, fewer than the member has, and
\* died at the shrink test
C22_Witness ==
    /\ rz_pc = "died" /\ rz_msg = ShrinkMsg
    /\ RequestedNbuckets > 0
    /\ RequestedNbuckets < CurrentNbuckets
    /\ rz_calls = <<>>

(***************************************************************************)
(* DEVICE EVACUATE: cmd_device_evacuate of cmd_device.c.                   *)
(*                                                                         *)
(* One run of the command, one step per call it makes into the filesystem: *)
(* open, read the device's usage, set the state, start the migrate.  The   *)
(* device's member state belongs to the filesystem, and others may change  *)
(* it while the command runs.  ev_log records what the command issues.     *)
(***************************************************************************)
\* state changes others make during one run
MaxEnv == 2

\* BCH_MEMBER_STATE_*
MemberStates == {"rw", "ro", "failed", "spare"}

EvacRunning == {"start", "opened", "read", "migrate"}

\* the test left out: the state is never changed
evacuate_sets_ro_never(state) == FALSE

\* u.state == BCH_MEMBER_STATE_rw
evacuate_sets_ro(state) == state = "rw"

EvacIdle ==
    /\ ev_pc = "idle"
    /\ ev_state = "rw"
    /\ ev_u = "none"
    /\ ev_log = <<>>
    /\ ev_msg = ""
    /\ ev_env = 0

EvacInit ==
    /\ ev_pc = "start"
    /\ ev_state \in MemberStates
    /\ ev_u = "none"
    /\ ev_log = <<>>
    /\ ev_msg = ""
    /\ ev_env = 0

EvacDie(msg) ==
    /\ ev_pc' = "died"
    /\ ev_msg' = msg

\* lines 305-321: options and arguments, then the filesystem of the device
\* is opened.  help: -h was given; has_dev: a device was named; extra:
\* arguments are left over; open_ok: bchu_fs_open_by_dev found the
\* filesystem
EvacArgs(help, has_dev, extra, open_ok) ==
    /\ EvacFrame
    /\ ev_pc = "start"
    /\ UNCHANGED <<ev_state, ev_u, ev_log, ev_env>>
    /\ IF help THEN ev_pc' = "done" /\ UNCHANGED ev_msg
       ELSE IF ~has_dev THEN EvacDie("Please supply a device")
       ELSE IF extra THEN EvacDie("too many arguments")
       ELSE IF ~open_ok THEN EvacDie("error opening")
       ELSE ev_pc' = "opened" /\ UNCHANGED ev_msg

\* line 323: u = bchu_dev_usage(fs, dev_idx)
EvacDevUsage ==
    /\ EvacFrame
    /\ ev_pc = "opened"
    /\ ev_u' = ev_state
    /\ ev_log' = Append(ev_log, [op |-> "dev_usage", state |-> ev_state])
    /\ ev_pc' = "read"
    /\ UNCHANGED <<ev_state, ev_msg, ev_env>>

\* lines 325-328: a device read as rw is set ro, without force flags.
\* ok: the filesystem accepted the change (the ioctl wrapper dies if not)
EvacSetState(ok) ==
    /\ EvacFrame
    /\ ev_pc = "read"
    /\ UNCHANGED <<ev_u, ev_env>>
    /\ IF evacuate_sets_ro(ev_u)
       THEN /\ ev_log' = Append(ev_log, [op |-> "set_state", state |-> "ro"])
            /\ IF ok
               THEN ev_state' = "ro" /\ ev_pc' = "migrate" /\ UNCHANGED ev_msg
               ELSE EvacDie("ioctl error") /\ UNCHANGED ev_state
       ELSE /\ ev_pc' = "migrate"
            /\ UNCHANGED <<ev_state, ev_log, ev_msg>>

\* lines 330-337: bchu_data with op BCH_DATA_OP_MIGRATE for the device
EvacMigrate ==
    /\ EvacFrame
    /\ ev_pc = "migrate"
    /\ ev_log' = Append(ev_log, [op |-> "migrate", state |-> ev_state])
    /\ ev_pc' = "done"
    /\ UNCHANGED <<ev_state, ev_u, ev_msg, ev_env>>

\* somebody else sets the device's state while the command runs
EnvSetState(st) ==
    /\ EvacFrame
    /\ ev_pc \in EvacRunning
    /\ ev_env < MaxEnv
    /\ st # ev_state
    /\ ev_state' = st
    /\ ev_env' = ev_env + 1
    /\ UNCHANGED <<ev_pc, ev_u, ev_log, ev_msg>>

\* the positions in ev_log of the operations of one kind
LogIdx(op) == {i \in DOMAIN ev_log : ev_log[i].op = op}

\* C23: device evacuate orders its steps.  The device's state is read
\* before anything else is issued; when the state read is rw, the state
\* change to ro is issued before the migrate operation, and the migrate
\* operation is never issued before it; when the state read is not rw, no
\* state change is issued at all.
C23_EvacuateOrder ==
    /\ \A i \in LogIdx("set_state") \cup LogIdx("migrate") :
          \E j \in LogIdx("dev_usage") : j < i
    /\ ev_u = "rw" =>
          \A i \in LogIdx("migrate") :
              \E j \in LogIdx("set_state") : j < i /\ ev_log[j].state = "ro"
    /\ \A i \in LogIdx("migrate"), j \in LogIdx("set_state") : j < i
    /\ ev_u # "rw" => LogIdx("set_state") = {}
    /\ ev_pc = "migrate" /\ ev_u = "rw" => LogIdx("set_state") # {}

\* a run read the device as rw, set it ro and then issued the migrate
C23_Witness ==
    /\ ev_pc = "done"
    /\ ev_u = "rw"
    /\ Len(ev_log) = 3
    /\ ev_log[2] = [op |-> "set_state", state |-> "ro"]
    /\ ev_log[3].op = "migrate"

(***************************************************************************)
(* Specifications                                                          *)
(***************************************************************************)
MarkNext ==
    \/ \E c \in Callers : CmpxchgRead(c)
    \/ \E c \in Callers : CmpxchgBody(c)
    \/ \E c \in Callers : CmpxchgCas(c)

InitMark ==
    MarkInit /\ GenIdle /\ ResIdle /\ ReclaimIdle /\ UsageIdle /\ AllocIdle
    /\ ArrayIdle /\ ResizeIdle /\ EvacIdle

SpecMark == InitMark /\ [][MarkNext]_vars

GenNext ==
    \/ RecordPtr
    \/ InvalidateGen
    \/ PtrStale

InitGen ==
    MarkIdle /\ GenInit /\ ResIdle /\ ReclaimIdle /\ UsageIdle /\ AllocIdle
    /\ ArrayIdle /\ ResizeIdle /\ EvacIdle

SpecGen == InitGen /\ [][GenNext]_vars

ResNext ==
    \/ \E t \in Tasks, p \in Cpus, s \in SectorChoices, n \in ReplicaChoices,
          f \in FlagChoices : Acquire(t, p, s, n, f)
    \/ \E t \in Tasks, p \in Cpus : Release(t, p)

InitRes ==
    MarkIdle /\ GenIdle /\ ResInit /\ ReclaimIdle /\ UsageIdle /\ AllocIdle
    /\ ArrayIdle /\ ResizeIdle /\ EvacIdle

SpecRes == InitRes /\ [][ResNext]_vars

ReclaimNext ==
    \/ \E d \in {-1, 1} : UsageChange(d)
    \/ PushFreeInc
    \/ \E i \in Reserves : PushFree(i)
    \/ \E i \in Reserves : Allocate(i)
    \/ CloseOpen
    \/ DevUsageRead
    \/ DevBucketsAvailable
    \/ DevBucketsReclaimable

InitReclaim ==
    MarkIdle /\ GenIdle /\ ResIdle /\ ReclaimInit /\ UsageIdle /\ AllocIdle
    /\ ArrayIdle /\ ResizeIdle /\ EvacIdle

SpecReclaim == InitReclaim /\ [][ReclaimNext]_vars

FsUsageNext ==
    \/ \E sch \in Schemes : ReplicasAdd(sch)
    \/ \E e \in Schemes : ReplicasRemove(e)
    \/ \E p \in Cpus, e \in Schemes : AddDelta(p, e)
    \/ AccToBase
    \/ FsUsageReadBegin
    \/ FsUsageReadFold
    \/ FsUsageReadCheck

InitFsUsage ==
    MarkIdle /\ GenIdle /\ ResIdle /\ ReclaimIdle /\ FsUsageInit /\ AllocIdle
    /\ ArrayIdle /\ ResizeIdle /\ EvacIdle

SpecFsUsage == InitFsUsage /\ [][FsUsageNext]_vars

TransNext ==
    \/ \E t \in Trans : TransMarkKey(t)
    \/ \E t \in Trans : TransRestart(t)
    \/ \E t \in Trans : TransAbort(t)
    \/ \E t \in Trans : TransCommit(t)
    \/ AccToBase
    \/ FsUsageReadBegin
    \/ FsUsageReadFold
    \/ FsUsageReadCheck

InitTrans ==
    MarkIdle /\ GenIdle /\ ResIdle /\ ReclaimIdle /\ TransInit /\ AllocIdle
    /\ ArrayIdle /\ ResizeIdle /\ EvacIdle

SpecTrans == InitTrans /\ [][TransNext]_vars

AllocNext ==
    \/ \E b \in ABuckets : BucketAllocate(b)
    \/ \E b \in ABuckets : BucketReleaseAbort(b)
    \/ \E b \in ABuckets, n \in 1 .. BucketSize : BucketReleaseWritten(b, n)
    \/ \E b \in ABuckets : BucketKeysDropped(b)
    \/ \E b \in ABuckets : BucketInvalidate(b)
    \/ \E b \in ABuckets : BucketToFreelist(b)

InitAlloc ==
    MarkIdle /\ GenIdle /\ ResIdle /\ ReclaimIdle /\ UsageIdle /\ AllocInit
    /\ ArrayIdle /\ ResizeIdle /\ EvacIdle

SpecAlloc == InitAlloc /\ [][AllocNext]_vars

ArrayNext ==
    \/ \E r \in Readers, prot \in Prots : ReadEnter(r, prot)
    \/ \E r \in Readers, gc \in BOOLEAN : BucketArray(r, gc)
    \/ \E r \in Readers : ReadExit(r)
    \/ \E a \in Arrays : GcAlloc(a)
    \/ GcSwap
    \/ \E a \in Arrays : Resize(a)
    \/ \E a \in Arrays : ArrayFree(a)

InitArrays ==
    MarkIdle /\ GenIdle /\ ResIdle /\ ReclaimIdle /\ UsageIdle /\ AllocIdle
    /\ ArrayInit /\ ResizeIdle /\ EvacIdle

SpecArrays == InitArrays /\ [][ArrayNext]_vars

ResizeNext ==
    \/ \E has_dev \in BOOLEAN, size_arg \in {"none", "bad", "ok"},
          bytes \in Sizes, extra \in BOOLEAN, mounted \in BOOLEAN :
          ResizeArgs(has_dev, size_arg, bytes, extra, mounted)
    \/ \E blk \in BOOLEAN, idx_ok \in BOOLEAN, has_mi \in BOOLEAN :
          ResizeOnline(blk, idx_ok, has_mi)
    \/ \E open_ok \in BOOLEAN, nonline \in 1 .. MaxOnline, ret \in {-1, 0} :
          ResizeOffline(open_ok, nonline, ret)

InitResize ==
    MarkIdle /\ GenIdle /\ ResIdle /\ ReclaimIdle /\ UsageIdle /\ AllocIdle
    /\ ArrayIdle /\ ResizeInit /\ EvacIdle

SpecResize == InitResize /\ [][ResizeNext]_vars

EvacuateNext ==
    \/ \E help \in BOOLEAN, has_dev \in BOOLEAN, extra \in BOOLEAN,
          open_ok \in BOOLEAN : EvacArgs(help, has_dev, extra, open_ok)
    \/ EvacDevUsage
    \/ \E ok \in BOOLEAN : EvacSetState(ok)
    \/ EvacMigrate
    \/ \E st \in MemberStates : EnvSetState(st)

InitEvacuate ==
    MarkIdle /\ GenIdle /\ ResIdle /\ ReclaimIdle /\ UsageIdle /\ AllocIdle
    /\ ArrayIdle /\ ResizeIdle /\ EvacInit

SpecEvacuate == InitEvacuate /\ [][EvacuateNext]_vars

====
